---- MODULE Spec2Model ----
(***************************************************************************)
(* Model of MotorController (CalibrationPY): the 6-byte command codec, the *)
(* telemetry decoder, the single commands, measure_average_speed and the   *)
(* zero-electrical-angle search find_zero_electrical_angle, driven through *)
(* a serial transport whose answers (and failures) are chosen by the       *)
(* environment; and of MotorControlGUI (Tools/Position control.py), whose  *)
(* handlers hand every command to a sender thread of its own.              *)
(*                                                                         *)
(* Python floats are modelled as exact rationals [n, d] in lowest terms:    *)
(* the averages and their difference are the exact quotients, where the    *)
(* program's binary floats may sit a few ulps beside them (the durations   *)
(* and frequencies used here are exactly representable).  time.sleep and   *)
(* print have no effect on the modelled state.                             *)
(***************************************************************************)
EXTENDS Integers, Sequences, FiniteSets, TLC

(***************************************************************************)
(* Bounds of the model.                                                    *)
(***************************************************************************)
\* largest max_iterations argument passed to find_zero_electrical_angle
MaxIter == 2
\* sampling frequency of the two calibration windows (the source samples at
\* 100.0 Hz for 1.0 s; the model keeps the 1.0 s window and scales the rate)
WindowFrequency == 2
\* number of operations a session performs before the calibration search
MaxCalls == 1
\* the synthetic oracle's bias k ranges over -KMax..KMax
KMax == 12
\* number of single commands a command session issues
MaxCommands == 2
\* number of commands the jogging front end generates
MaxJog == 3

(***************************************************************************)
(* Program constants.                                                      *)
(***************************************************************************)
TestSpeed == 25000
DefaultMaxIterations == 100
ConvergenceTolerance == 2
MinFrameLen == 7
PositionMask == 16383
\* send_c2_command: the jogging range
JogLimit == 8191

\* no value: a float not assigned yet, an outcome not reached yet
NoSpeed == [n |-> 0, d |-> 0]
NoOutcome == "none"

(***************************************************************************)
(* Exact rationals standing for Python floats.                             *)
(***************************************************************************)
RECURSIVE GCD(_, _)
GCD(a, b) == IF b = 0 THEN a ELSE GCD(b, a % b)

IAbs(x) == IF x < 0 THEN -x ELSE x

Rat(n, d) ==
    LET g == GCD(IAbs(n), IAbs(d))
        s == IF d < 0 THEN -1 ELSE 1
    IN  [n |-> (s * n) \div g, d |-> (s * d) \div g]

RInt(x) == [n |-> x, d |-> 1]
RMul(a, b) == Rat(a.n * b.n, a.d * b.d)
RSub(a, b) == Rat(a.n * b.d - b.n * a.d, a.d * b.d)
RAbs(a) == [n |-> IAbs(a.n), d |-> a.d]
\* a > t, a <= t for an integer t
RGtInt(a, t) == a.n > t * a.d
RLeInt(a, t) == a.n <= t * a.d
\* int(x): truncation toward zero
RTrunc(a) == IF a.n >= 0 THEN a.n \div a.d ELSE -((-a.n) \div a.d)

RECURSIVE SumSeq(_)
SumSeq(s) == IF s = <<>> THEN 0 ELSE Head(s) + SumSeq(Tail(s))

(***************************************************************************)
(* Codec.                                                                  *)
(***************************************************************************)
\* x & 0xFF and (x >> 8) & 0xFF on Python's unbounded integers
low_byte(x) == x % 256
high_byte(x) == (x \div 256) % 256

\* struct.unpack('<H', b) and struct.unpack('<h', b)
unpack_uint16(lo, hi) == lo + 256 * hi
\* faulty variant: the signed field is read as '<H'
unpack_int16_mut_unsigned(lo, hi) == lo + 256 * hi
unpack_int16(lo, hi) ==
    IF lo + 256 * hi >= 32768 THEN lo + 256 * hi - 65536 ELSE lo + 256 * hi

command(id, opcode, sub, lo, hi) == <<170, id, opcode, sub, lo, hi>>

\* faulty variant: the telemetry request without its sub-code
read_position_command_mut_sub(id) == command(id, 8, 0, 0, 0)
read_position_command(id) == command(id, 8, 7, 0, 0)
coarse_zero_command(id) == command(id, 11, 0, 0, 0)
set_zero_command(id, zero_pos) ==
    command(id, 241, 0, low_byte(zero_pos), high_byte(zero_pos))

\* faulty variant: the sign of the speed is dropped
set_motor_speed_command_mut_abs(id, speed) ==
    LET s == IF speed < 0 THEN -speed ELSE speed
    IN  command(id, 192, 0, low_byte(s), high_byte(s))
set_motor_speed_command(id, speed) ==
    LET s == IF speed < 0 THEN 65536 + speed ELSE speed
    IN  command(id, 192, 0, low_byte(s), high_byte(s))

\* faulty variant: the stop is sent with opcode 0xC1
stop_motor_mut_opcode(id) == command(id, 193, 0, 0, 0)
stop_motor_command(id) == command(id, 192, 0, 0, 0)

\* clear_motor_status sends the same bytes as stop_motor
clear_motor_status_command(id) == command(id, 192, 0, 0, 0)
save_conf_command(id) == command(id, 176, 0, 0, 0)

\* the range test of set_motor_id and set_new_motor_id
\* faulty variant: 256 passes the test
id_out_of_range_mut(new_id) == new_id < 0 \/ new_id > 256
id_out_of_range(new_id) == new_id < 0 \/ new_id > 255

set_new_motor_id_command(id, new_id) == command(id, 240, 0, new_id, 0)

\* faulty variant: a negative limit is complemented against 0xFFFF
set_negative_limit_command_mut_ones(id, limit) ==
    LET limit_bytes == IF limit < 0 THEN limit + 65535 ELSE limit
    IN  command(id, 200, 0, low_byte(limit_bytes), high_byte(limit_bytes))
set_negative_limit_command(id, limit) ==
    LET limit_bytes == IF limit < 0 THEN limit + 65536 ELSE limit
    IN  command(id, 200, 0, low_byte(limit_bytes), high_byte(limit_bytes))

set_positive_limit_command(id, limit) ==
    LET limit_bytes == IF limit < 0 THEN limit + 65536 ELSE limit
    IN  command(id, 201, 0, low_byte(limit_bytes), high_byte(limit_bytes))

\* read_position_data's decoding of a response: (position, speed, current)
\* faulty variant: a short response reads as speed -1
decode_mut_truncated(response) ==
    IF Len(response) >= MinFrameLen
    THEN <<PositionMask - unpack_uint16(response[2], response[3]),
           unpack_int16(response[4], response[5]),
           unpack_uint16(response[6], response[7])>>
    ELSE <<0, -1, 0>>
decode(response) ==
    IF Len(response) >= MinFrameLen
    THEN <<PositionMask - unpack_uint16(response[2], response[3]),
           unpack_int16(response[4], response[5]),
           unpack_uint16(response[6], response[7])>>
    ELSE <<0, 0, 0>>

(***************************************************************************)
(* Jogging front end (Tools/Position control.py): pure parts.              *)
(***************************************************************************)
\* on_slider_change: position = int(float(value))
slider_position(value) == RTrunc(value)

\* send_c2_command: position = max(-8191, min(8191, position))
\* faulty variant: only the upper end is clamped
jog_clamp_mut_upper(pos) ==
    IF pos > JogLimit THEN JogLimit ELSE pos
jog_clamp(pos) ==
    LET upper == IF pos > JogLimit THEN JogLimit ELSE pos
    IN  IF upper < -JogLimit THEN -JogLimit ELSE upper

c2_command(id, pos) ==
    LET clamped == jog_clamp(pos)
        position_bytes == IF clamped < 0 THEN clamped + 65536 ELSE clamped
    IN  command(id, 194, 0, low_byte(position_bytes), high_byte(position_bytes))

c7_command(id) == command(id, 199, 0, 0, 0)

(***************************************************************************)
(* measure_average_speed: pure parts.                                      *)
(***************************************************************************)
total_readings_of(dur, freq) == RTrunc(RMul(dur, freq))

average_of(s) == Rat(SumSeq(s), Len(s))

(***************************************************************************)
(* find_zero_electrical_angle: pure parts.                                 *)
(***************************************************************************)
\* faulty variant: one iteration too many
range_has_next_mut(it, max) == it + 1 <= max
range_has_next(it, max) == it + 1 < max

current_difference_of(fwd, rev) == RSub(RAbs(fwd), RAbs(rev))

\* faulty variant: tolerance 1 instead of 2
is_converged_mut(diff) == ~RGtInt(RAbs(diff), ConvergenceTolerance - 1)
is_converged(diff) == RLeInt(RAbs(diff), ConvergenceTolerance)

\* faulty variant: thresholds compared with >=
delta_mut_ge(diff) ==
    IF RAbs(diff).n >= 50 * diff.d THEN 20
    ELSE IF RAbs(diff).n >= 30 * diff.d THEN 15
    ELSE IF RAbs(diff).n >= 25 * diff.d THEN 10
    ELSE IF RAbs(diff).n >= 15 * diff.d THEN 5
    ELSE 2
delta_of(diff) ==
    IF RGtInt(RAbs(diff), 50) THEN 20
    ELSE IF RGtInt(RAbs(diff), 30) THEN 15
    ELSE IF RGtInt(RAbs(diff), 25) THEN 10
    ELSE IF RGtInt(RAbs(diff), 15) THEN 5
    ELSE 2

\* faulty variants: direction inverted; step applied three times
adjust_mut_sign(zero, diff, delta) ==
    IF diff.n > 0 THEN zero + delta ELSE zero - delta
adjust_mut_oscillate(zero, diff, delta) ==
    IF diff.n > 0 THEN zero - 3 * delta ELSE zero + 3 * delta
adjust(zero, diff, delta) ==
    IF diff.n > 0 THEN zero - delta ELSE zero + delta

(***************************************************************************)
(* Environment: what the serial line answers.                              *)
(***************************************************************************)
\* The answers of the free environment: one short response, and frames whose
\* speeds 3, 10 and -60 give window averages that differ by exactly 2, 15, 25,
\* 30 and 50 as well as by values inside every band of the step table.
Frame(raw, speed, current) ==
    <<171, raw % 256, raw \div 256,
      (speed % 65536) % 256, (speed % 65536) \div 256,
      current % 256, current \div 256>>

FreeResponses ==
    { <<171, 1, 2, 3>>,
      Frame(16383, 3, 10),
      Frame(16380, 10, 300) \o <<0>>,
      Frame(16380, -60, 300) }

\* a controller that does not keep the position field within 14 bits
WideResponses == { Frame(65535, 3, 10) }

\* further answers to a single read_position_data: the ends of every field,
\* and lengths on both sides of the 7-byte test
ProbeResponses ==
    { <<>>,
      <<171, 0, 0, 255, 255, 255, 255>>,
      <<171, 255, 63, 0, 128, 1, 0>>,
      <<171, 255, 63, 0, 128, 1>>,
      <<171, 52, 18, 255, 127, 0, 128, 9, 9>> }

\* arguments of the single commands
SpeedArgs == { -32768, -1, 0, 32767, 65535 }
ZeroArgs == { -32769, -32768, -1, 255, 32767, 65536 }
LimitArgs == { -32769, -32768, -1, 256, 32767, 65535, 65536 }
IdArgs == { -1, 0, 2, 255, 256 }

\* the jogging front end: slider values, and entries of the id field
SliderValues == { RInt(-9000), RInt(-8191), Rat(-3, 2), Rat(201, 2), RInt(9000) }
IdEntries == { 2, 256 }

Durations == { RInt(0), Rat(1, 2), RInt(1) }
Frequencies == { RInt(0), RInt(1), RInt(3) }
InitialZeroPositions == { 0, 9 }

VARIABLES
    env,                    \* "free", "wide" or "oracle": who answers the reads
    k,                      \* the oracle's bias
    motor_id,               \* self.motor_id
    current_zero_position,  \* self.current_zero_position
    pc,                     \* control location of the session
    calls,                  \* operations performed so far
    error,                  \* the exception that ended the session
    last_frame,             \* transport: frame most recently written
    last_speed_frame,       \* transport: most recent 0xC0 frame written
    last_f1_frame,          \* transport: most recent 0xF1 frame written
    f1_writes,              \* 0xF1 frames written by the running search
    tele_writes,            \* telemetry requests written by the running measurement
    log,                    \* responses received by the running measurement
    position,               \* set_coarse_zero_position: position
    duration, frequency,    \* measure_average_speed: arguments
    total_readings, speeds, \* measure_average_speed: locals
    average_speed,          \* measure_average_speed: return value
    ret,                    \* measure_average_speed: where it returns to
    initial_zero_pos, max_iterations,   \* find_zero_electrical_angle: arguments
    iteration,              \* find_zero_electrical_angle: loop variable
    forward_speed, reverse_speed,       \* find_zero_electrical_angle: locals
    iter_zero,              \* zero offset at the start of the running iteration
    outcome,                \* "converged" or "exhausted" once the search returned
    result,                 \* find_zero_electrical_angle: return value
    iter_log,               \* frames written by the running iteration of the search
    all_short,              \* every read of the running iteration was short so far
    commands,               \* single commands issued so far
    op,                     \* the single command being executed, and its answer
    reading,                \* read_position_data: return value
    gui_motor_id,           \* MotorControlGUI: self.motor_id
    gui_open,               \* MotorControlGUI: self.ser and self.ser.is_open
    slider_var,             \* MotorControlGUI: self.slider_var
    generated,              \* MotorControlGUI: commands handed to sender threads
    threads,                \* MotorControlGUI: sender threads started, not yet run
    written                 \* MotorControlGUI: commands written, in the order of ser.write

wire == <<last_frame, last_speed_frame, last_f1_frame, f1_writes, tele_writes,
          iter_log>>
cmds == <<commands, op, reading>>
gui == <<gui_motor_id, gui_open, slider_var, generated, threads, written>>
ctrl == <<env, k, motor_id, cmds, gui>>
measure_locals == <<duration, frequency, total_readings, speeds, ret, log>>
search_state == <<initial_zero_pos, max_iterations, iteration, forward_speed,
                  reverse_speed, iter_zero, outcome, result>>
search_locals == <<search_state, all_short>>
vars == <<env, k, motor_id, current_zero_position, pc, calls, error,
          last_frame, last_speed_frame, last_f1_frame, f1_writes, tele_writes,
          log, position, duration, frequency, total_readings, speeds,
          average_speed, ret, initial_zero_pos, max_iterations, iteration,
          forward_speed, reverse_speed, iter_zero, outcome, result,
          iter_log, all_short, commands, op, reading,
          gui_motor_id, gui_open, slider_var, generated, threads, written>>

\* the window the running measurement belongs to
InForwardWindow == ret = "fz_stop2"

\* find_zero_electrical_angle is on the call stack
SearchRunning ==
    \/ pc \in {"fz_loop", "fz_stop1", "fz_setfwd", "fz_measfwd", "fz_stop2",
               "fz_setrev", "fz_measrev", "fz_stop3", "fz_eval", "fz_setzero"}
    \/ pc \in {"m_start", "m_loop", "m_done"} /\ ret # "idle"

NoOp == [name |-> "none", arg |-> 0, response |-> <<>>]
NoReading == <<0, 0, 0>>

OracleSpeed ==
    IF InForwardWindow
    THEN 100 - IAbs(current_zero_position)
    ELSE 100 - IAbs(current_zero_position + k)

Responses ==
    IF env = "oracle" THEN { Frame(PositionMask, OracleSpeed, 0) }
    ELSE IF env = "wide" THEN FreeResponses \cup WideResponses
    ELSE FreeResponses

Outcomes ==
    IF env = "oracle" THEN { "ok" } ELSE { "ok", "write_fail", "read_fail" }

(***************************************************************************)
(* send_command: ser.write, then ser.read_all; either may raise.  An       *)
(* exception unwinds every running call, which discards their locals.      *)
(***************************************************************************)
Written(frame) ==
    /\ last_frame' = frame
    /\ last_speed_frame' = IF frame[3] = 192 THEN frame ELSE last_speed_frame
    /\ last_f1_frame' = IF frame[3] = 241 THEN frame ELSE last_f1_frame
    /\ f1_writes' = IF frame[3] = 241 THEN f1_writes + 1 ELSE f1_writes
    /\ tele_writes' = IF frame[3] = 8 THEN tele_writes + 1 ELSE tele_writes
    /\ iter_log' = IF SearchRunning THEN Append(iter_log, frame) ELSE iter_log

NoMeasureLocals ==
    /\ duration' = RInt(0)
    /\ frequency' = RInt(1)
    /\ total_readings' = 0
    /\ speeds' = <<>>
    /\ log' = <<>>
    /\ ret' = "idle"

NoSearchLocals ==
    /\ initial_zero_pos' = 0
    /\ max_iterations' = 0
    /\ iteration' = -1
    /\ forward_speed' = NoSpeed
    /\ reverse_speed' = NoSpeed
    /\ iter_zero' = 0
    /\ outcome' = NoOutcome
    /\ result' = 0
    /\ all_short' = TRUE

Unwind(e) ==
    /\ pc' = "raised"
    /\ error' = e
    /\ position' = 0
    /\ average_speed' = NoSpeed
    /\ NoMeasureLocals
    /\ NoSearchLocals
    /\ UNCHANGED <<ctrl, calls>>

\* send_command(frame) raising on the write (nothing written) or on the read
send_command_raises(frame, oc) ==
    /\ IF oc = "write_fail" THEN UNCHANGED wire ELSE Written(frame)
    /\ Unwind("SerialException")

\* send_command(frame) returning normally
send_command(frame, okpc) ==
    /\ Written(frame)
    /\ pc' = okpc
    /\ error' = error

InitController ==
    /\ motor_id = 1
    /\ current_zero_position = 0
    /\ pc = "idle"
    /\ calls = 0
    /\ error = "none"
    /\ last_frame = <<>>
    /\ last_speed_frame = <<>>
    /\ last_f1_frame = <<>>
    /\ f1_writes = 0
    /\ tele_writes = 0
    /\ log = <<>>
    /\ position = 0
    /\ duration = RInt(0)
    /\ frequency = RInt(1)
    /\ total_readings = 0
    /\ speeds = <<>>
    /\ average_speed = NoSpeed
    /\ ret = "idle"
    /\ initial_zero_pos = 0
    /\ max_iterations = 0
    /\ iteration = -1
    /\ forward_speed = NoSpeed
    /\ reverse_speed = NoSpeed
    /\ iter_zero = 0
    /\ outcome = NoOutcome
    /\ result = 0
    /\ iter_log = <<>>
    /\ all_short = TRUE
    /\ commands = 0
    /\ op = NoOp
    /\ reading = NoReading

\* MotorControlGUI.__init__ and setup_serial, which may fail to open the port
InitJog ==
    /\ gui_motor_id = 1
    /\ gui_open \in BOOLEAN
    /\ slider_var = 0
    /\ generated = <<>>
    /\ threads = {}
    /\ written = <<>>

Init ==
    /\ env = "free"
    /\ k = 0
    /\ InitController
    /\ InitJog /\ gui_open

\* the same session with a controller whose position field is not 14 bits wide
InitWide ==
    /\ env = "wide"
    /\ k = 0
    /\ InitController
    /\ InitJog /\ gui_open

\* the convergence scenario: a synthetic controller with bias k, offset 0
InitOracle ==
    /\ env = "oracle"
    /\ k \in -KMax..KMax
    /\ InitController
    /\ InitJog /\ gui_open

(***************************************************************************)
(* set_coarse_zero_position                                                *)
(***************************************************************************)
CallCoarseZero ==
    /\ pc = "idle" /\ env # "oracle" /\ calls < MaxCalls
    /\ calls' = calls + 1
    /\ pc' = "coarse_cmd"
    /\ UNCHANGED <<ctrl, current_zero_position, error, wire, position,
                   average_speed, measure_locals, search_locals>>

CoarseCommand ==
    /\ pc = "coarse_cmd"
    /\ \E oc \in Outcomes :
        IF oc = "ok"
        THEN /\ send_command(coarse_zero_command(motor_id), "coarse_read")
             /\ UNCHANGED <<ctrl, calls, position, average_speed,
                            measure_locals, search_locals>>
        ELSE send_command_raises(coarse_zero_command(motor_id), oc)
    /\ UNCHANGED current_zero_position

\* _, _, position = self.read_position_data()
CoarseRead ==
    /\ pc = "coarse_read"
    /\ \E oc \in Outcomes, response \in Responses :
        IF oc = "ok"
        THEN /\ send_command(read_position_command(motor_id), "coarse_setzero")
             /\ position' = decode(response)[1]
             /\ UNCHANGED <<ctrl, calls, average_speed, measure_locals, search_locals>>
        ELSE send_command_raises(read_position_command(motor_id), oc)
    /\ UNCHANGED current_zero_position

\* self.set_zero_position(position)
CoarseSetZero ==
    /\ pc = "coarse_setzero"
    /\ current_zero_position' = position
    /\ \E oc \in Outcomes :
        IF oc = "ok"
        THEN /\ send_command(set_zero_command(motor_id, position), "coarse_stop")
             /\ UNCHANGED <<ctrl, calls, position, average_speed,
                            measure_locals, search_locals>>
        ELSE send_command_raises(set_zero_command(motor_id, position), oc)

\* self.stop_motor(); return response
CoarseStop ==
    /\ pc = "coarse_stop"
    /\ \E oc \in Outcomes :
        IF oc = "ok"
        THEN /\ send_command(stop_motor_command(motor_id), "idle")
             /\ position' = 0
             /\ UNCHANGED <<ctrl, calls, average_speed, measure_locals, search_locals>>
        ELSE send_command_raises(stop_motor_command(motor_id), oc)
    /\ UNCHANGED current_zero_position

(***************************************************************************)
(* measure_average_speed                                                   *)
(***************************************************************************)
CallMeasure ==
    /\ pc = "idle" /\ env # "oracle" /\ calls < MaxCalls
    /\ calls' = calls + 1
    /\ \E dur \in Durations, freq \in Frequencies :
        /\ duration' = dur
        /\ frequency' = freq
    /\ ret' = "idle"
    /\ pc' = "m_start"
    /\ UNCHANGED <<ctrl, current_zero_position, error, wire, position, log,
                   total_readings, speeds, average_speed, search_locals>>

\* interval = 1.0 / frequency; total_readings = int(duration * frequency); speeds = []
MeasureStart ==
    /\ pc = "m_start"
    /\ IF frequency.n = 0
       THEN /\ Unwind("ZeroDivisionError")
            /\ UNCHANGED wire
       ELSE /\ total_readings' = total_readings_of(duration, frequency)
            /\ speeds' = <<>>
            /\ log' = <<>>
            /\ tele_writes' = 0
            /\ pc' = "m_loop"
            /\ UNCHANGED <<ctrl, calls, error, last_frame, last_speed_frame,
                           last_f1_frame, f1_writes, iter_log, position, duration,
                           frequency, average_speed, ret, search_locals>>
    /\ UNCHANGED current_zero_position

\* one pass of "for i in range(total_readings)": read and append the speed
MeasureRead ==
    /\ pc = "m_loop"
    /\ Len(speeds) < total_readings
    /\ \E oc \in Outcomes, response \in Responses :
        IF oc = "ok"
        THEN /\ send_command(read_position_command(motor_id), "m_loop")
             /\ speeds' = Append(speeds, decode(response)[2])
             /\ log' = Append(log, response)
             /\ all_short' = IF ret = "idle" THEN all_short
                              ELSE all_short /\ Len(response) < MinFrameLen
             /\ UNCHANGED <<ctrl, calls, position, duration, frequency,
                            total_readings, average_speed, ret, search_state>>
        ELSE send_command_raises(read_position_command(motor_id), oc)
    /\ UNCHANGED current_zero_position

\* the loop is over: average_speed = sum(speeds) / len(speeds)
MeasureAverage ==
    /\ pc = "m_loop"
    /\ ~(Len(speeds) < total_readings)
    /\ IF Len(speeds) = 0
       THEN Unwind("ZeroDivisionError")
       ELSE /\ average_speed' = average_of(speeds)
            /\ pc' = "m_done"
            /\ UNCHANGED <<ctrl, calls, error, position, measure_locals, search_locals>>
    /\ UNCHANGED <<current_zero_position, wire>>

\* return average_speed
MeasureReturn ==
    /\ pc = "m_done"
    /\ pc' = ret
    /\ average_speed' = IF ret = "idle" THEN NoSpeed ELSE average_speed
    /\ NoMeasureLocals
    /\ tele_writes' = 0
    /\ UNCHANGED <<ctrl, current_zero_position, calls, error, last_frame,
                   last_speed_frame, last_f1_frame, f1_writes, iter_log, position,
                   search_locals>>

(***************************************************************************)
(* find_zero_electrical_angle                                              *)
(***************************************************************************)
CallFindZero ==
    /\ pc = "idle"
    /\ \E p \in InitialZeroPositions :
        initial_zero_pos' = IF env = "oracle" THEN 0 ELSE p
    /\ \E m \in 0..MaxIter :
        max_iterations' = IF env = "oracle" THEN DefaultMaxIterations ELSE m
    /\ iteration' = -1
    /\ f1_writes' = 0
    /\ iter_log' = <<>>
    /\ pc' = "fz_loop"
    /\ UNCHANGED <<ctrl, current_zero_position, calls, error, last_frame,
                   last_speed_frame, last_f1_frame, tele_writes, position,
                   average_speed, measure_locals, forward_speed, reverse_speed,
                   iter_zero, outcome, result, all_short>>

\* "for iteration in range(max_iterations)", and the return after the loop;
\* forward_speed and reverse_speed are dead until the iteration reassigns them,
\* and no line of the function reads initial_zero_pos: the model keeps the
\* argument up to the first pass through the loop header only
FindZeroLoop ==
    /\ pc = "fz_loop"
    /\ initial_zero_pos' = 0
    /\ IF range_has_next(iteration, max_iterations)
       THEN /\ iteration' = iteration + 1
            /\ iter_zero' = current_zero_position
            /\ forward_speed' = NoSpeed
            /\ reverse_speed' = NoSpeed
            /\ iter_log' = <<>>
            /\ all_short' = TRUE
            /\ pc' = "fz_stop1"
            /\ UNCHANGED <<outcome, result>>
       ELSE /\ result' = current_zero_position
            /\ outcome' = "exhausted"
            /\ pc' = "returned"
            /\ UNCHANGED <<iteration, iter_zero, forward_speed, reverse_speed,
                           iter_log, all_short>>
    /\ UNCHANGED <<ctrl, current_zero_position, calls, error, last_frame,
                   last_speed_frame, last_f1_frame, f1_writes, tele_writes,
                   position, average_speed, measure_locals, max_iterations>>

FindZeroStop1 ==
    /\ pc = "fz_stop1"
    /\ \E oc \in Outcomes :
        IF oc = "ok"
        THEN /\ send_command(stop_motor_command(motor_id), "fz_setfwd")
             /\ UNCHANGED <<ctrl, calls, position, average_speed,
                            measure_locals, search_locals>>
        ELSE send_command_raises(stop_motor_command(motor_id), oc)
    /\ UNCHANGED current_zero_position

FindZeroSetForward ==
    /\ pc = "fz_setfwd"
    /\ \E oc \in Outcomes :
        IF oc = "ok"
        THEN /\ send_command(set_motor_speed_command(motor_id, TestSpeed), "fz_measfwd")
             /\ UNCHANGED <<ctrl, calls, position, average_speed,
                            measure_locals, search_locals>>
        ELSE send_command_raises(set_motor_speed_command(motor_id, TestSpeed), oc)
    /\ UNCHANGED current_zero_position

\* forward_speed = self.measure_average_speed(1.0, 100.0): the call
FindZeroMeasureForward ==
    /\ pc = "fz_measfwd"
    /\ duration' = RInt(1)
    /\ frequency' = RInt(WindowFrequency)
    /\ ret' = "fz_stop2"
    /\ pc' = "m_start"
    /\ UNCHANGED <<ctrl, current_zero_position, calls, error, wire, position, log,
                   total_readings, speeds, average_speed, search_locals>>

\* forward_speed = <returned value>; self.stop_motor()
FindZeroStop2 ==
    /\ pc = "fz_stop2"
    /\ \E oc \in Outcomes :
        IF oc = "ok"
        THEN /\ send_command(stop_motor_command(motor_id), "fz_setrev")
             /\ forward_speed' = average_speed
             /\ average_speed' = NoSpeed
             /\ UNCHANGED <<ctrl, calls, position, measure_locals,
                            initial_zero_pos, max_iterations, iteration,
                            reverse_speed, iter_zero, outcome, result, all_short>>
        ELSE send_command_raises(stop_motor_command(motor_id), oc)
    /\ UNCHANGED current_zero_position

FindZeroSetReverse ==
    /\ pc = "fz_setrev"
    /\ \E oc \in Outcomes :
        IF oc = "ok"
        THEN /\ send_command(set_motor_speed_command(motor_id, -TestSpeed), "fz_measrev")
             /\ UNCHANGED <<ctrl, calls, position, average_speed,
                            measure_locals, search_locals>>
        ELSE send_command_raises(set_motor_speed_command(motor_id, -TestSpeed), oc)
    /\ UNCHANGED current_zero_position

\* reverse_speed = self.measure_average_speed(1.0, 100.0): the call
FindZeroMeasureReverse ==
    /\ pc = "fz_measrev"
    /\ duration' = RInt(1)
    /\ frequency' = RInt(WindowFrequency)
    /\ ret' = "fz_stop3"
    /\ pc' = "m_start"
    /\ UNCHANGED <<ctrl, current_zero_position, calls, error, wire, position, log,
                   total_readings, speeds, average_speed, search_locals>>

\* reverse_speed = <returned value>; self.stop_motor()
FindZeroStop3 ==
    /\ pc = "fz_stop3"
    /\ \E oc \in Outcomes :
        IF oc = "ok"
        THEN /\ send_command(stop_motor_command(motor_id), "fz_eval")
             /\ reverse_speed' = average_speed
             /\ average_speed' = NoSpeed
             /\ UNCHANGED <<ctrl, calls, position, measure_locals,
                            initial_zero_pos, max_iterations, iteration,
                            forward_speed, iter_zero, outcome, result, all_short>>
        ELSE send_command_raises(stop_motor_command(motor_id), oc)
    /\ UNCHANGED current_zero_position

\* the convergence test, the step selection and the adjustment of the offset
FindZeroEvaluate ==
    /\ pc = "fz_eval"
    /\ LET current_difference == current_difference_of(forward_speed, reverse_speed)
       IN  IF is_converged(current_difference)
           THEN /\ result' = current_zero_position
                /\ outcome' = "converged"
                /\ pc' = "returned"
                /\ UNCHANGED current_zero_position
           ELSE /\ current_zero_position' =
                      adjust(current_zero_position, current_difference,
                             delta_of(current_difference))
                /\ pc' = "fz_setzero"
                /\ UNCHANGED <<result, outcome>>
    /\ UNCHANGED <<ctrl, calls, error, wire, position, average_speed, measure_locals,
                   initial_zero_pos, max_iterations, iteration, forward_speed,
                   reverse_speed, iter_zero, all_short>>

\* self.set_zero_position(self.current_zero_position)
FindZeroSetZero ==
    /\ pc = "fz_setzero"
    /\ \E oc \in Outcomes :
        IF oc = "ok"
        THEN /\ send_command(set_zero_command(motor_id, current_zero_position), "fz_loop")
             /\ UNCHANGED <<ctrl, calls, position, average_speed,
                            measure_locals, search_locals>>
        ELSE send_command_raises(set_zero_command(motor_id, current_zero_position), oc)
    /\ UNCHANGED current_zero_position

(***************************************************************************)
(* The single commands of MotorController, called one at a time.           *)
(***************************************************************************)
CommandCalls ==
    ({"set_motor_speed"} \X SpeedArgs)
    \cup ({"set_zero_position"} \X ZeroArgs)
    \cup ({"set_negative_limit", "set_positive_limit"} \X LimitArgs)
    \cup ({"set_motor_id", "set_new_motor_id"} \X IdArgs)
    \cup ({"read_position_data", "stop_motor", "clear_motor_status", "save_conf"}
            \X {0})

\* the caller picks a command and its argument
CallCommand ==
    /\ pc = "idle" /\ env # "oracle" /\ commands < MaxCommands
    /\ commands' = commands + 1
    /\ \E c \in CommandCalls :
        op' = [name |-> c[1], arg |-> c[2], response |-> <<>>]
    /\ pc' = "cmd_call"
    /\ UNCHANGED <<env, k, motor_id, reading, gui, current_zero_position, calls,
                   error, wire, position, average_speed, measure_locals,
                   search_locals>>

\* response = self.send_command(command); return response
Transmit(frame) ==
    \E oc \in Outcomes :
        IF oc = "ok"
        THEN /\ send_command(frame, "cmd_done")
             /\ UNCHANGED <<ctrl, calls, position, average_speed,
                            measure_locals, search_locals>>
        ELSE send_command_raises(frame, oc)

SetMotorId ==
    /\ pc = "cmd_call" /\ op.name = "set_motor_id"
    /\ IF id_out_of_range(op.arg)
       THEN Unwind("ValueError")
       ELSE /\ motor_id' = op.arg
            /\ pc' = "cmd_done"
            /\ UNCHANGED <<env, k, cmds, gui, calls, error, position,
                           average_speed, measure_locals, search_locals>>
    /\ UNCHANGED <<current_zero_position, wire>>

ReadPositionData ==
    /\ pc = "cmd_call" /\ op.name = "read_position_data"
    /\ \E oc \in Outcomes, response \in Responses \cup ProbeResponses :
        IF oc = "ok"
        THEN /\ send_command(read_position_command(motor_id), "cmd_done")
             /\ reading' = decode(response)
             /\ op' = [op EXCEPT !.response = response]
             /\ UNCHANGED <<env, k, motor_id, commands, gui, calls, position,
                            average_speed, measure_locals, search_locals>>
        ELSE send_command_raises(read_position_command(motor_id), oc)
    /\ UNCHANGED current_zero_position

SetZeroPosition ==
    /\ pc = "cmd_call" /\ op.name = "set_zero_position"
    /\ current_zero_position' = op.arg
    /\ Transmit(set_zero_command(motor_id, op.arg))

ClearMotorStatus ==
    /\ pc = "cmd_call" /\ op.name = "clear_motor_status"
    /\ Transmit(clear_motor_status_command(motor_id))
    /\ UNCHANGED current_zero_position

SetMotorSpeed ==
    /\ pc = "cmd_call" /\ op.name = "set_motor_speed"
    /\ Transmit(set_motor_speed_command(motor_id, op.arg))
    /\ UNCHANGED current_zero_position

StopMotor ==
    /\ pc = "cmd_call" /\ op.name = "stop_motor"
    /\ Transmit(stop_motor_command(motor_id))
    /\ UNCHANGED current_zero_position

SaveConf ==
    /\ pc = "cmd_call" /\ op.name = "save_conf"
    /\ Transmit(save_conf_command(motor_id))
    /\ UNCHANGED current_zero_position

SetNewMotorId ==
    /\ pc = "cmd_call" /\ op.name = "set_new_motor_id"
    /\ IF id_out_of_range(op.arg)
       THEN /\ Unwind("ValueError")
            /\ UNCHANGED wire
       ELSE Transmit(set_new_motor_id_command(motor_id, op.arg))
    /\ UNCHANGED current_zero_position

SetNegativeLimit ==
    /\ pc = "cmd_call" /\ op.name = "set_negative_limit"
    /\ Transmit(set_negative_limit_command(motor_id, op.arg))
    /\ UNCHANGED current_zero_position

SetPositiveLimit ==
    /\ pc = "cmd_call" /\ op.name = "set_positive_limit"
    /\ Transmit(set_positive_limit_command(motor_id, op.arg))
    /\ UNCHANGED current_zero_position

\* the command returned; its caller drops the return value
CommandReturn ==
    /\ pc = "cmd_done"
    /\ pc' = "idle"
    /\ op' = NoOp
    /\ reading' = NoReading
    /\ UNCHANGED <<env, k, motor_id, commands, gui, current_zero_position, calls,
                   error, wire, position, average_speed, measure_locals,
                   search_locals>>

(***************************************************************************)
(* MotorControlGUI (Tools/Position control.py): the handlers run on the    *)
(* Tk thread, every command is written by a thread of its own.             *)
(***************************************************************************)
host == <<env, k, motor_id, cmds, current_zero_position, pc, calls, error, wire,
          position, average_speed, measure_locals, search_locals>>

\* threading.Thread(target=self._send_command, args=(command,)).start()
StartSender(frame, request) ==
    /\ generated' = Append(generated, [frame |-> frame, request |-> request])
    /\ threads' = threads \cup {Len(generated) + 1}

GuiSetMotorId ==
    /\ \E new_id \in IdEntries :
        gui_motor_id' = IF 0 <= new_id /\ new_id <= 255 THEN new_id ELSE gui_motor_id
    /\ UNCHANGED <<host, gui_open, slider_var, generated, threads, written>>

\* on_slider_change(value), which calls send_c2_command(position)
OnSliderChange ==
    /\ Len(generated) < MaxJog
    /\ \E value \in SliderValues :
        LET pos == slider_position(value)
        IN  /\ StartSender(c2_command(gui_motor_id, pos), pos)
            /\ slider_var' = pos
    /\ UNCHANGED <<host, gui_motor_id, gui_open, written>>

\* set_zero_position: the C7 command, and the slider back to 0
GuiSetZeroPosition ==
    /\ Len(generated) < MaxJog
    /\ StartSender(c7_command(gui_motor_id), 0)
    /\ slider_var' = 0
    /\ UNCHANGED <<host, gui_motor_id, gui_open, written>>

\* _send_command(command) in a sender thread: send_command writes when the
\* port is open; an exception of the write is reported and swallowed
SenderThread ==
    /\ \E t \in threads :
        /\ threads' = threads \ {t}
        /\ \E oc \in {"ok", "write_fail"} :
            written' = IF gui_open /\ oc = "ok" THEN Append(written, t) ELSE written
    /\ UNCHANGED <<host, gui_motor_id, gui_open, slider_var, generated>>

Next ==
    \/ CallCoarseZero
    \/ CoarseCommand
    \/ CoarseRead
    \/ CoarseSetZero
    \/ CoarseStop
    \/ CallMeasure
    \/ MeasureStart
    \/ MeasureRead
    \/ MeasureAverage
    \/ MeasureReturn
    \/ CallFindZero
    \/ FindZeroLoop
    \/ FindZeroStop1
    \/ FindZeroSetForward
    \/ FindZeroMeasureForward
    \/ FindZeroStop2
    \/ FindZeroSetReverse
    \/ FindZeroMeasureReverse
    \/ FindZeroStop3
    \/ FindZeroEvaluate
    \/ FindZeroSetZero

Spec == Init /\ [][Next]_vars

\* the same session against the controller with the wide position field
SpecWide == InitWide /\ [][Next]_vars

TypeOK ==
    /\ pc \in {"idle", "coarse_cmd", "coarse_read", "coarse_setzero", "coarse_stop",
               "m_start", "m_loop", "m_done", "fz_loop", "fz_stop1", "fz_setfwd",
               "fz_measfwd", "fz_stop2", "fz_setrev", "fz_measrev", "fz_stop3",
               "fz_eval", "fz_setzero", "returned", "raised", "cmd_call",
               "cmd_done"}
    /\ error \in {"none", "SerialException", "ZeroDivisionError", "ValueError"}
    /\ current_zero_position \in Int
    /\ calls \in 0..MaxCalls
    /\ commands \in 0..MaxCommands
    /\ all_short \in BOOLEAN
    /\ threads \subseteq 1..Len(generated)
    /\ Len(generated) <= MaxJog

\* a session of single commands: any command of MotorController, and the
\* coarse zeroing, in any order
NextCommands ==
    \/ CallCommand
    \/ SetMotorId
    \/ ReadPositionData
    \/ SetZeroPosition
    \/ ClearMotorStatus
    \/ SetMotorSpeed
    \/ StopMotor
    \/ SaveConf
    \/ SetNewMotorId
    \/ SetNegativeLimit
    \/ SetPositiveLimit
    \/ CommandReturn
    \/ CallCoarseZero
    \/ CoarseCommand
    \/ CoarseRead
    \/ CoarseSetZero
    \/ CoarseStop

SpecCommands == Init /\ [][NextCommands]_vars

\* the jogging front end on its own
NextGui ==
    \/ GuiSetMotorId
    \/ OnSliderChange
    \/ GuiSetZeroPosition
    \/ SenderThread

InitGui ==
    /\ env = "free"
    /\ k = 0
    /\ InitController
    /\ InitJog

SpecGui == InitGui /\ [][NextGui]_vars

\* the calibration search alone: find_zero_electrical_angle on a fresh controller
NextSearch ==
    \/ CallFindZero
    \/ FindZeroLoop
    \/ FindZeroStop1
    \/ FindZeroSetForward
    \/ FindZeroMeasureForward
    \/ FindZeroStop2
    \/ FindZeroSetReverse
    \/ FindZeroMeasureReverse
    \/ FindZeroStop3
    \/ FindZeroEvaluate
    \/ FindZeroSetZero
    \/ MeasureStart
    \/ MeasureRead
    \/ MeasureAverage
    \/ MeasureReturn

\* every step of the search is a step of one sequential thread, which keeps
\* running: weak fairness of its next step
SpecSearch == Init /\ [][NextSearch]_vars /\ WF_vars(NextSearch)

\* the same search against the synthetic oracle
SpecOracle == InitOracle /\ [][NextSearch]_vars /\ WF_vars(NextSearch)

(***************************************************************************)
(* Properties.                                                             *)
(***************************************************************************)
\* |forward_speed| - |reverse_speed| of the running iteration, as num/den
Difference == RSub(RAbs(forward_speed), RAbs(reverse_speed))
AbsDifferenceGt(t) == IAbs(Difference.n) > t * Difference.d

StopFrame == <<170, motor_id, 192, 0, 0, 0>>

\* C1: the evaluation of an iteration returns if and only if |difference| <= 2;
\* it then returns the offset the iteration was measured with, and the
\* iteration has written no set-zero frame.
C1_ConvergenceTest ==
    [][pc = "fz_eval" =>
        /\ (pc' = "returned") <=> ~AbsDifferenceGt(2)
        /\ pc' = "returned" =>
            /\ outcome' = "converged"
            /\ result' = iter_zero
            /\ current_zero_position' = iter_zero
            /\ f1_writes' = iteration
            /\ last_f1_frame' = last_f1_frame
            /\ last_frame'[3] # 241]_vars

C1_Witness ==
    /\ pc = "returned" /\ outcome = "converged"
    /\ iteration = 1
    /\ IAbs(Difference.n) = 2 * Difference.d
    /\ result = iter_zero /\ result # 0

\* C2: the step of a non-converging iteration follows the threshold table
\* 20 / 15 / 10 / 5 / 2 for |difference| > 50 / > 30 / > 25 / > 15 / otherwise.
C2_StepTable ==
    (pc = "fz_setzero" \/ (pc = "fz_loop" /\ iteration >= 0)) =>
        LET step == IAbs(current_zero_position - iter_zero)
        IN  /\ AbsDifferenceGt(50) => step = 20
            /\ (~AbsDifferenceGt(50) /\ AbsDifferenceGt(30)) => step = 15
            /\ (~AbsDifferenceGt(30) /\ AbsDifferenceGt(25)) => step = 10
            /\ (~AbsDifferenceGt(25) /\ AbsDifferenceGt(15)) => step = 5
            /\ ~AbsDifferenceGt(15) => step = 2

C2_Witness ==
    /\ pc = "fz_setzero"
    /\ IAbs(Difference.n) = 50 * Difference.d
    /\ IAbs(current_zero_position - iter_zero) = 15

C4_BoundedSearch ==
    /\ [](SearchRunning =>
            /\ iteration < max_iterations \/ (iteration = -1 /\ max_iterations = 0)
            /\ f1_writes <= max_iterations)
    /\ []((pc = "returned" /\ outcome = "exhausted") =>
            /\ error = "none"
            /\ iteration + 1 = max_iterations
            /\ f1_writes = max_iterations
            /\ result = current_zero_position
            /\ max_iterations > 0 =>
                /\ last_frame = last_f1_frame
                /\ unpack_int16(last_f1_frame[5], last_f1_frame[6]) = result)
    /\ <>(pc \in {"returned", "raised"})

C4_Witness ==
    /\ pc = "returned" /\ outcome = "exhausted"
    /\ max_iterations = MaxIter
    /\ f1_writes = MaxIter
    /\ result # 0

\* C5: against the synthetic oracle the search eventually returns through the
\* convergence branch, at an offset where the oracle's |difference| <= 2, and
\* never exhausts its budget.
OracleDifferenceAt(offset) ==
    IAbs(100 - IAbs(offset)) - IAbs(100 - IAbs(offset + k))

C5_OracleConverges ==
    /\ <>(pc = "returned")
    /\ [](pc = "returned" =>
            /\ outcome = "converged"
            /\ IAbs(OracleDifferenceAt(result)) <= 2
            /\ iteration < DefaultMaxIterations)

C5_Witness ==
    /\ pc = "returned" /\ outcome = "converged"
    /\ k = -KMax
    /\ iteration >= 3
    /\ result # 0

\* C6: when a transport failure ends the search, the last speed command on
\* the wire is a stop.
C6_StopBeforePropagate ==
    [][(SearchRunning /\ pc' = "raised") => last_speed_frame' = StopFrame]_vars

\* C7: when the search returns normally after at least one iteration, the most
\* recent speed command written is a stop.
C7_StoppedOnReturn ==
    (pc = "returned" /\ iteration >= 0) =>
        /\ Len(last_speed_frame) = 6
        /\ last_speed_frame[3] = 192
        /\ last_speed_frame[5] = 0 /\ last_speed_frame[6] = 0

C7_Witness ==
    /\ pc = "returned" /\ outcome = "exhausted"
    /\ iteration >= 0
    /\ last_frame[3] = 241

\* C8: the first iteration of the search works on the offset passed as
\* initial_zero_pos.
C8_UsesInitialZeroPos ==
    [][(pc = "fz_loop" /\ iteration = -1 /\ pc' = "fz_stop1")
          => iter_zero' = initial_zero_pos]_vars

\* C9: a measurement of sample_count = floor(duration * frequency) >= 1
\* samples issues exactly sample_count telemetry reads and returns the mean of
\* the sample_count readings, a short response counting as a reading of 0.
SampleSpeed(response) ==
    IF Len(response) < 7
    THEN 0
    ELSE LET u == response[4] + 256 * response[5]
         IN  IF u >= 32768 THEN u - 65536 ELSE u

RECURSIVE SampleSum(_)
SampleSum(responses) ==
    IF responses = <<>> THEN 0
    ELSE SampleSpeed(Head(responses)) + SampleSum(Tail(responses))

C9_MeanOfAllSamples ==
    pc = "m_done" =>
        LET sample_count == (duration.n * frequency.n) \div (duration.d * frequency.d)
        IN  /\ sample_count >= 1
            /\ tele_writes = sample_count
            /\ Len(log) = sample_count
            /\ average_speed.d > 0
            /\ average_speed.n * sample_count = average_speed.d * SampleSum(log)

C9_Witness ==
    /\ pc = "m_done" /\ ret = "idle"
    /\ Len(log) = 3
    /\ \E i \in 1..3 : Len(log[i]) < 7
    /\ \E i \in 1..3 : Len(log[i]) >= 7
    /\ average_speed.d = 3

\* C10: a measurement of fewer than one sample fails with EmptySampleError,
\* not with a division by zero.
C10_EmptySampleError ==
    [][(pc = "m_loop" /\ total_readings < 1 /\ pc' = "raised")
          => error' = "EmptySampleError"]_vars

(***************************************************************************)
(* Properties of the single commands.                                      *)
(***************************************************************************)
\* some frame has just been written to the transport
FrameWritten ==
    <<last_frame, f1_writes, tele_writes>>' # <<last_frame, f1_writes, tele_writes>>

Signed16(lo, hi) ==
    IF lo + 256 * hi >= 32768 THEN lo + 256 * hi - 65536 ELSE lo + 256 * hi

\* C11: read_position_data writes one telemetry request and nothing else; an
\* answer of at least 7 bytes is decoded to position = 0x3FFF - uint16 of
\* bytes 1..2, speed = int16 of bytes 3..4, current = uint16 of bytes 5..6
\* (little-endian); a shorter answer gives the failure value (0, 0, 0) and the
\* call returns normally.
C11_DecodeLaw ==
    [][(pc = "cmd_call" /\ op.name = "read_position_data" /\ pc' = "cmd_done") =>
        LET r == op'.response
        IN  /\ error' = "none"
            /\ last_frame' = <<170, motor_id, 8, 7, 0, 0>>
            /\ tele_writes' = tele_writes + 1
            /\ f1_writes' = f1_writes
            /\ last_speed_frame' = last_speed_frame
            /\ last_f1_frame' = last_f1_frame
            /\ Len(r) >= 7 =>
                  reading' = <<16383 - (r[2] + 256 * r[3]),
                               Signed16(r[4], r[5]),
                               r[6] + 256 * r[7]>>
            /\ Len(r) < 7 => reading' = <<0, 0, 0>>]_vars

C11_Witness ==
    /\ pc = "cmd_done" /\ op.name = "read_position_data"
    /\ op.response = <<171, 0, 0, 255, 255, 255, 255>>
    /\ reading = <<16383, -1, 65535>>
    /\ error = "none"

\* C12: for a parameter p in -32768..32767 the two parameter bytes written by
\* set_motor_speed, set_zero_position, set_negative_limit and
\* set_positive_limit are the low and the high byte of p's 16-bit two's
\* complement, so they decode as a little-endian int16 to p; speed -1 and speed
\* 0xFFFF both give FF FF, which decodes to -1.
C12_TwosComplement ==
    (pc = "cmd_done" /\ op.name \in {"set_motor_speed", "set_zero_position",
                                     "set_negative_limit", "set_positive_limit"}) =>
        /\ Len(last_frame) = 6
        /\ last_frame[3] = (CASE op.name = "set_motor_speed" -> 192
                              [] op.name = "set_zero_position" -> 241
                              [] op.name = "set_negative_limit" -> 200
                              [] op.name = "set_positive_limit" -> 201)
        /\ (op.arg >= -32768 /\ op.arg <= 32767) =>
              /\ last_frame[5] = (op.arg + 65536) % 256
              /\ last_frame[6] = ((op.arg + 65536) % 65536) \div 256
              /\ Signed16(last_frame[5], last_frame[6]) = op.arg
        /\ (op.name = "set_motor_speed" /\ op.arg \in {-1, 65535}) =>
              /\ last_frame[5] = 255 /\ last_frame[6] = 255
              /\ Signed16(last_frame[5], last_frame[6]) = -1

C12_Witness ==
    /\ pc = "cmd_done" /\ op.name = "set_negative_limit" /\ op.arg = -32768
    /\ last_frame = <<170, motor_id, 200, 0, 0, 128>>
    /\ last_speed_frame = <<170, motor_id, 192, 0, 255, 255>>

C14_IdValidated ==
    /\ [](motor_id \in 0..255)
    /\ [][(/\ pc = "cmd_call"
           /\ op.name \in {"set_motor_id", "set_new_motor_id"}
           /\ (op.arg < 0 \/ op.arg > 255)) =>
              /\ pc' = "raised" /\ error' = "ValueError"
              /\ ~FrameWritten /\ last_frame' = last_frame
              /\ motor_id' = motor_id]_vars
    /\ [][FrameWritten =>
              (last_frame'[2] = motor_id /\ last_frame'[2] \in 0..255)]_vars

C14_Witness ==
    /\ pc = "raised" /\ error = "ValueError"
    /\ op.name = "set_motor_id" /\ op.arg = 256
    /\ motor_id = 255
    /\ last_frame = <<>>

\* C15: set_negative_limit, set_positive_limit and set_zero_position called
\* with a value below -32768 or above 65535 fail with a validation error,
\* write nothing and leave current_zero_position as it was.
C15_RangeValidated ==
    [][(/\ pc = "cmd_call"
        /\ op.name \in {"set_negative_limit", "set_positive_limit",
                         "set_zero_position"}
        /\ (op.arg < -32768 \/ op.arg > 65535)) =>
           /\ pc' = "raised" /\ error' = "ValidationError"
           /\ ~FrameWritten /\ last_frame' = last_frame
           /\ current_zero_position' = current_zero_position]_vars

(***************************************************************************)
(* Properties of the jogging front end.                                    *)
(***************************************************************************)
\* C16: the 0xC2 frame built for a requested position carries, as a
\* little-endian signed int16, the request clamped to -8191..8191, and no
\* 0xC2 frame carries a position outside that range.
C16_JogClamped ==
    \A i \in 1..Len(generated) :
        LET frame == generated[i].frame
            request == generated[i].request
            carried == Signed16(frame[5], frame[6])
        IN  frame[3] = 194 =>
                /\ Len(frame) = 6 /\ frame[1] = 170 /\ frame[4] = 0
                /\ frame[5] \in 0..255 /\ frame[6] \in 0..255
                /\ carried >= -8191 /\ carried <= 8191
                /\ request < -8191 => carried = -8191
                /\ request > 8191 => carried = 8191
                /\ (request >= -8191 /\ request <= 8191) => carried = request

C16_Witness ==
    /\ Len(generated) = 2
    /\ generated[1].request = -9000
    /\ generated[1].frame = <<170, 1, 194, 0, 1, 224>>
    /\ generated[2].request = 9000
    /\ generated[2].frame = <<170, 2, 194, 0, 255, 31>>
    /\ written = <<1, 2>>

\* C20: the commands of the jogging front end are written in the order in
\* which they were generated, whatever the interleaving of the sender
\* threads; once every command has been written, the last frame written is
\* the one generated last.
C20_OrderPreserved ==
    /\ \A i, j \in 1..Len(written) : i < j => written[i] < written[j]
    /\ (threads = {} /\ Len(written) = Len(generated) /\ Len(written) > 0) =>
          written[Len(written)] = Len(generated)

(***************************************************************************)
(* Properties of the calibration run.                                      *)
(***************************************************************************)
TelemetryRequest == <<170, motor_id, 8, 7, 0, 0>>
\* +25000 = 0x61A8 and -25000 = 0x9E58 as parameter bytes
ForwardFrame == <<170, motor_id, 192, 0, 168, 97>>
ReverseFrame == <<170, motor_id, 192, 0, 88, 158>>

\* the frames of one iteration up to its evaluation, with a forward and b
\* reverse telemetry requests (each window of the search makes
\* WindowFrequency of them)
IterationFrames(a, b) ==
    <<StopFrame, ForwardFrame>> \o [i \in 1..a |-> TelemetryRequest]
        \o <<StopFrame, ReverseFrame>> \o [i \in 1..b |-> TelemetryRequest]
        \o <<StopFrame>>

IsPrefix(s, t) == Len(s) <= Len(t) /\ \A i \in 1..Len(s) : s[i] = t[i]

IsSetZeroFrame(f) ==
    /\ Len(f) = 6 /\ f[1] = 170 /\ f[2] = motor_id /\ f[3] = 241 /\ f[4] = 0

\* C17: the frames of an iteration of the search are, in this order: stop,
\* set-speed +25000, the forward telemetry requests, stop, set-speed -25000,
\* the reverse telemetry requests, stop, and then one set-zero frame exactly
\* when the iteration did not converge; a set-zero frame is written only
\* while the most recent speed command is a stop, and no frame is a save.
C17_FrameOrder ==
    /\ []((SearchRunning \/ pc = "returned") =>
            LET full == IterationFrames(WindowFrequency, WindowFrequency)
            IN  /\ \A i \in 1..Len(iter_log) : iter_log[i][3] # 176
                /\ \/ IsPrefix(iter_log, full)
                   \/ /\ Len(iter_log) = Len(full) + 1
                      /\ IsPrefix(full, iter_log)
                      /\ IsSetZeroFrame(iter_log[Len(iter_log)])
                /\ pc = "fz_eval" => iter_log = full
                /\ (pc = "returned" /\ outcome = "converged") => iter_log = full
                /\ (pc \in {"fz_loop", "returned"} /\ iteration >= 0
                        /\ outcome # "converged") =>
                      /\ Len(iter_log) = Len(full) + 1
                      /\ f1_writes = iteration + 1)
    /\ [][(SearchRunning /\ f1_writes' = f1_writes + 1) =>
            (last_speed_frame = StopFrame /\ last_speed_frame' = StopFrame)]_vars

C17_Witness ==
    /\ pc = "fz_loop" /\ iteration = 1
    /\ f1_writes = 2
    /\ Len(iter_log) = 2 * WindowFrequency + 6
    /\ iter_log[2] = ForwardFrame
    /\ iter_log[WindowFrequency + 4] = ReverseFrame
    /\ iter_log[Len(iter_log)][3] = 241

C19_SilentController ==
    [][(pc = "fz_eval" /\ iteration = 0 /\ all_short) =>
        /\ forward_speed = RInt(0) /\ reverse_speed = RInt(0)
        /\ Difference = RInt(0)
        /\ pc' = "returned" /\ outcome' = "converged"
        /\ result' = iter_zero
        /\ current_zero_position' = current_zero_position
        /\ current_zero_position = iter_zero
        /\ f1_writes' = 0
        /\ ~FrameWritten
        /\ last_f1_frame' = last_f1_frame]_vars

C19_Witness ==
    /\ pc = "returned" /\ outcome = "converged"
    /\ iteration = 0 /\ all_short
    /\ max_iterations = MaxIter
    /\ f1_writes = 0
    /\ tele_writes = 0
    /\ Len(iter_log) = 2 * WindowFrequency + 5
    /\ result = 3
====
